---- MODULE Spec2Model ----
(***************************************************************************)
(* A model of geo_util.py: the MapTile class.                              *)
(*                                                                         *)
(*   MapTile.__init__  resolves the requested region to a matrix of tile   *)
(*                     coordinates, downloads every tile and stacks the    *)
(*                     cells into self.data                                *)
(*   MapTile.grad / grad_norm / grad_angle                                 *)
(*                     the triangulated gradient of self.data at a point   *)
(*                                                                         *)
(* Spec      follows one construction: Start runs __init__ up to its first *)
(*           download, Fetch is one download and whatever the constructor  *)
(*           does until the next one.                                      *)
(* GradSpec  starts from a constructed MapTile and applies the queries.    *)
(***************************************************************************)
EXTENDS Integers, Sequences, FiniteSets, TLC

VARIABLES
    from_tile,   \* self.from_tile: <<z, x, y>>
    to_tile,     \* self.to_tile: <<z, x, y>> or NoTile (None)
    zoom,        \* self.zoom: an integer or NoZoom (None)
    ext,         \* self.ext
    pc,          \* "start", "fetch", "blocked" (in a download that never
                 \* returns), "done" (constructed), "raised"
    error,       \* the exception that left the constructor, or NoError
    tile_list,   \* the local tile_list: rows of <<zoom, x, y>>
    full_tile,   \* the local full_tile: the stacked rows so far
    tr,          \* the local tr: the cells of the current row so far
    row,         \* index of the row being downloaded (1-based)
    col,         \* index of the tile being downloaded in that row (1-based)
    requested,   \* history: the tiles whose download was started, in order
    cells,       \* history: the cell appended for every tile, by row
    data,        \* self.data
    shape,       \* self.shape
    ret          \* the last query and what it returned

vars == <<from_tile, to_tile, zoom, ext, pc, error, tile_list, full_tile, tr,
          row, col, requested, cells, data, shape, ret>>

----------------------------------------------------------------------------
(* Bounds of the model *)

\* the finest zoom level of a corner tile that is tried
MaxZ == 2
\* the largest x or y of a corner tile that is tried
MaxXY == 2
\* the largest number of tiles of a region that is downloaded
MaxTiles == 4
\* the edge of a canonical tile: 256 in the source, scaled down
TileSize == 2
\* the finest zoom level of the tile of a surface that is queried
GradZ == 0
\* query coordinates are multiples of 1/Den (halves: floats hold them and
\* their sums exactly)
Den == 2
\* query coordinates run over -QMax/Den .. QMax/Den
QMax == 4

----------------------------------------------------------------------------
(* Python values *)

\* zoom=None
NoZoom == -1
\* to_tile=None
NoTile == <<>>
NoError == "none"
\* an attribute that was never assigned
Unset == <<>>
\* the limit of the map service's zoom level
MAX_ZOOM == 18
\* np.uint8 arithmetic is modulo 2^8
Uint8Mod == 256

ImageExts == {"png", "jpg"}
TextExts == {"txt"}


\* the scaling with the quotient truncated to an int
ScaleMut(c, e, minus) ==
    IF e >= 0
    THEN [float |-> FALSE, num |-> c * 2^e - minus, den |-> 1]
    ELSE [float |-> FALSE, num |-> (c - minus * 2^(-e)) \div 2^(-e), den |-> 1]
\* c * 2**e - minus as Python computes it: an int for e >= 0, a float for
\* e < 0 (2**e is then the float 1/2**(-e))
Scale(c, e, minus) ==
    IF e >= 0
    THEN [float |-> FALSE, num |-> c * 2^e - minus, den |-> 1]
    ELSE [float |-> TRUE, num |-> c - minus * 2^(-e), den |-> 2^(-e)]

\* list(range(a, b)) for ints a, b
PyRange(a, b) == [k \in 1..(b - a) |-> a + k - 1]

\* the zoom = from_tile[0] default
EffZoom(z, ft) == IF z = NoZoom THEN ft[1] ELSE z
\* the to_tile = from_tile default
EffTo(tt, ft) == IF tt = NoTile THEN ft ELSE tt

\* the corners x1, y1, x2, y2 of the region at the target zoom
X1(ft, z) == Scale(ft[2], z - ft[1], 0)
Y1(ft, z) == Scale(ft[3], z - ft[1], 0)
\* x2 without the final -1
X2Mut(tt, z) == Scale(tt[2] + 1, z - tt[1], 0)
X2(tt, z) == Scale(tt[2] + 1, z - tt[1], 1)
Y2(tt, z) == Scale(tt[3] + 1, z - tt[1], 1)

\* the nested loops that fill tile_list
TileList(z, x1, x2, y1, y2) ==
    LET js == PyRange(y1, y2 + 1)
        is == PyRange(x1, x2 + 1)
    IN  [j \in 1..Len(js) |-> [i \in 1..Len(is) |-> <<z, is[i], js[j]>>]]

\* __init__ from its first line to the end of the tile_list loops:
\* the exception raised, or the tile matrix
Resolve(ft, tt0, z0) ==
    LET z == EffZoom(z0, ft)
        tt == EffTo(tt0, ft)
        x1 == X1(ft, z)
        y1 == Y1(ft, z)
        x2 == X2(tt, z)
        y2 == Y2(tt, z)
    IN  IF ~(z <= MAX_ZOOM)
        THEN [err |-> "AssertionError", tiles |-> <<>>]
        \* range(y1, y2+1), and range(x1, x2+1) in its body, want ints
        ELSE IF y1.float \/ y2.float
        THEN [err |-> "TypeError", tiles |-> <<>>]
        ELSE IF y2.num >= y1.num /\ (x1.float \/ x2.float)
        THEN [err |-> "TypeError", tiles |-> <<>>]
        ELSE [err |-> NoError,
              tiles |-> TileList(z, x1.num, x2.num, y1.num, y2.num)]

----------------------------------------------------------------------------
(* numpy arrays: [h, w, ch, dtype, v], ch = 0 for a two-dimensional array,  *)
(* v the h x w matrix of elements (for ch > 0 an element stands for the     *)
(* pixel's channel vector, every channel carrying the same number)          *)

Arr(h, w, ch, dtype, v) == [h |-> h, w |-> w, ch |-> ch, dtype |-> dtype, v |-> v]

\* ndarray.shape
ShapeOf(a) == IF a.ch = 0 THEN <<a.h, a.w>> ELSE <<a.h, a.w, a.ch>>

\* np.zeros((256, 256, 3)) and np.zeros((256, 256))
Zeros(h, w, ch) ==
    Arr(h, w, ch, "float64", [i \in 1..h |-> [j \in 1..w |-> 0]])

\* what the tile server holds at pixel (i, j) of a tile: never 0, and not
\* affine in the pixel's position
TileContent(tile, i, j) ==
    LET gx == tile[2] * TileSize + (j - 1)
        gy == tile[3] * TileSize + (i - 1)
    IN  1 + ((gx * gx + 3 * gx * gy + 2 * gy + tile[1]) % 5)

\* np.array(Image.open(BytesIO(response.content))) of a well-formed tile
ImageCell(tile) ==
    Arr(TileSize, TileSize, 3, "uint8",
        [i \in 1..TileSize |-> [j \in 1..TileSize |-> TileContent(tile, i, j)]])

\* the same for an image of another mode (RGBA: four channels)
OddImageCell(tile) ==
    Arr(TileSize, TileSize, 4, "uint8",
        [i \in 1..TileSize |-> [j \in 1..TileSize |-> TileContent(tile, i, j)]])

\* pd.read_csv(...).replace("e", 0).values.astype(np.float) of a
\* well-formed elevation tile
TextCell(tile) ==
    Arr(TileSize, TileSize, 0, "float64",
        [i \in 1..TileSize |-> [j \in 1..TileSize |-> TileContent(tile, i, j)]])

\* the same for a csv with one column too many
OddTextCell(tile) ==
    Arr(TileSize, TileSize + 1, 0, "float64",
        [i \in 1..TileSize |-> [j \in 1..(TileSize + 1) |-> TileContent(tile, i, j)]])

\* the dtype of a concatenation
Promote(as) ==
    IF \A k \in 1..Len(as) : as[k].dtype = as[1].dtype
    THEN as[1].dtype ELSE "float64"

RECURSIVE SumW(_)
SumW(as) == IF as = <<>> THEN 0 ELSE as[1].w + SumW(Tail(as))
RECURSIVE SumH(_)
SumH(as) == IF as = <<>> THEN 0 ELSE as[1].h + SumH(Tail(as))

\* the cells of a row right to left
RECURSIVE CatRowsMut(_, _)
CatRowsMut(as, i) ==
    IF as = <<>> THEN <<>> ELSE CatRowsMut(Tail(as), i) \o as[1].v[i]
\* row i of every array of as, left to right
RECURSIVE CatRows(_, _)
CatRows(as, i) ==
    IF as = <<>> THEN <<>> ELSE as[1].v[i] \o CatRows(Tail(as), i)

\* the rows of every array of as, top to bottom
RECURSIVE CatCols(_)
CatCols(as) == IF as = <<>> THEN <<>> ELSE as[1].v \o CatCols(Tail(as))

SameExceptW(as) ==
    \A k \in 1..Len(as) : as[k].h = as[1].h /\ as[k].ch = as[1].ch
SameExceptH(as) ==
    \A k \in 1..Len(as) : as[k].w = as[1].w /\ as[k].ch = as[1].ch
SameShape(as) ==
    \A k \in 1..Len(as) : ShapeOf(as[k]) = ShapeOf(as[1])

NpError == "ValueError: numpy"

\* tr = np.array(tr); np.hstack(tr): the cells of a row side by side.
\* np.array of cells of different shapes is an array of objects in some
\* numpy releases and a ValueError in others: ragged says which.
HStack(as, ragged) ==
    IF as = <<>> THEN [err |-> NpError, arr |-> Unset]
    ELSE IF ~SameShape(as) /\ ~ragged THEN [err |-> NpError, arr |-> Unset]
    ELSE IF ~SameExceptW(as) THEN [err |-> NpError, arr |-> Unset]
    ELSE [err |-> NoError,
          arr |-> Arr(as[1].h, SumW(as), as[1].ch, Promote(as),
                      [i \in 1..as[1].h |-> CatRows(as, i)])]

\* np.vstack(np.array(full_tile)): the rows one below the other
VStack(as, ragged) ==
    IF as = <<>> THEN [err |-> NpError, arr |-> Unset]
    ELSE IF ~SameShape(as) /\ ~ragged THEN [err |-> NpError, arr |-> Unset]
    ELSE IF ~SameExceptH(as) THEN [err |-> NpError, arr |-> Unset]
    ELSE [err |-> NoError,
          arr |-> Arr(SumH(as), as[1].w, as[1].ch, Promote(as), CatCols(as))]

----------------------------------------------------------------------------
(* One download *)

Exts == {"png", "jpg", "txt", "gif"}
FormatError == "ValueError: only {.jpg, .png, .txt} supported"

\* what the network and the tile server can do with one request
Outcomes == {"ok", "odd", "not_found", "transport", "decode", "silent"}

\* the exception the body of the try statement raises, if any.
\* png/jpg: requests.get returns the 404 response without raising and
\* Image.open then fails on its body; txt: pd.read_csv opens the url with
\* urllib, which raises HTTPError on a 404.
TryRaises(e, outcome) ==
    IF e \in ImageExts
    THEN CASE outcome = "not_found" -> "PIL.UnidentifiedImageError"
           [] outcome = "transport" -> "requests.exceptions.ConnectionError"
           [] outcome = "decode" -> "PIL.UnidentifiedImageError"
           [] OTHER -> NoError
    ELSE CASE outcome = "not_found" -> "urllib.error.HTTPError"
           [] outcome = "transport" -> "urllib.error.URLError"
           [] outcome = "decode" -> "ValueError: could not convert string to float"
           [] OTHER -> NoError

\* except urllib.error.HTTPError
Caught(exc) == exc = "urllib.error.HTTPError"

\* the array the try body yields when nothing is raised
Decoded(e, tile, outcome) ==
    IF e \in ImageExts
    THEN IF outcome = "odd" THEN OddImageCell(tile) ELSE ImageCell(tile)
    ELSE IF outcome = "odd" THEN OddTextCell(tile) ELSE TextCell(tile)

\* the array of the except clause
Fallback(e) ==
    IF e \in ImageExts
    THEN Zeros(TileSize, TileSize, 3)
    ELSE Zeros(TileSize, TileSize, 0)

\* the try statement for one tile: the exception that leaves it, or the
\* cell it appends to tr
FetchCell(e, tile, outcome) ==
    LET exc == TryRaises(e, outcome)
    IN  IF exc = NoError
        THEN [err |-> NoError, cell |-> Decoded(e, tile, outcome)]
        ELSE IF Caught(exc)
        THEN [err |-> NoError, cell |-> Fallback(e)]
        ELSE [err |-> exc, cell |-> Unset]

----------------------------------------------------------------------------
(* The constructor between two downloads *)

Ctl(p, e, ft, t, r, c, d) ==
    [pc |-> p, error |-> e, full_tile |-> ft, tr |-> t, row |-> r, col |-> c,
     data |-> d, shape |-> IF d = Unset THEN Unset ELSE ShapeOf(d)]

\* the head of the body of the inner loop, at tile (r, c): the download is
\* next if ext is supported, the ValueError of the else branch if not
\* the download started whatever ext is
AtTileMut(e, ft, t, r, c) == Ctl("fetch", NoError, ft, t, r, c, Unset)
AtTile(e, ft, t, r, c) ==
    IF e \in ImageExts \/ e \in TextExts
    THEN Ctl("fetch", NoError, ft, t, r, c, Unset)
    ELSE Ctl("raised", FormatError, ft, t, r, c, Unset)

\* self.data = np.vstack(np.array(full_tile)); self.shape = self.data.shape
Finish(ft, ragged) ==
    LET vs == VStack(ft, ragged)
    IN  IF vs.err # NoError
        THEN Ctl("raised", vs.err, ft, <<>>, 0, 0, Unset)
        ELSE Ctl("done", NoError, ft, <<>>, 0, 0, vs.arr)

\* the download loops from the top of row r
AtRow(tl, e, ft, r, ragged) ==
    IF r > Len(tl) THEN Finish(ft, ragged)
    ELSE IF Len(tl[r]) = 0
    THEN Ctl("raised", HStack(<<>>, ragged).err, ft, <<>>, r, 0, Unset)
    ELSE AtTile(e, ft, <<>>, r, 1)

\* after tr.append(cell) at tile (r, c), t being tr with the cell in it
AfterCell(tl, e, ft, t, r, c, ragged) ==
    IF c < Len(tl[r]) THEN AtTile(e, ft, t, r, c + 1)
    ELSE LET hs == HStack(t, ragged)
         IN  IF hs.err # NoError
             THEN Ctl("raised", hs.err, ft, t, r, c, Unset)
             ELSE AtRow(tl, e, Append(ft, hs.arr), r + 1, ragged)

----------------------------------------------------------------------------
(* The construction of one MapTile *)

Tiles ==
    {t \in (0..MaxZ) \X (0..MaxXY) \X (0..MaxXY) :
        t[2] <= 2^t[1] - 1 /\ t[3] <= 2^t[1] - 1}
ZoomArgs == {NoZoom} \cup (0..MaxZ) \cup {MAX_ZOOM + 1}

RECURSIVE Count(_)
Count(rows) == IF rows = <<>> THEN 0 ELSE Len(rows[1]) + Count(Tail(rows))

\* the arguments of the call; a region of more than MaxTiles tiles is not
\* tried
Init ==
    /\ from_tile \in Tiles
    /\ to_tile \in Tiles \cup {NoTile}
    /\ zoom \in ZoomArgs
    /\ ext \in Exts
    /\ Count(Resolve(from_tile, to_tile, zoom).tiles) <= MaxTiles
    /\ pc = "start"
    /\ error = NoError
    /\ tile_list = <<>>
    /\ full_tile = <<>>
    /\ tr = <<>>
    /\ row = 0
    /\ col = 0
    /\ requested = <<>>
    /\ cells = <<>>
    /\ data = Unset
    /\ shape = Unset
    /\ ret = Unset

Goto(s) ==
    /\ pc' = s.pc
    /\ error' = s.error
    /\ full_tile' = s.full_tile
    /\ tr' = s.tr
    /\ row' = s.row
    /\ col' = s.col
    /\ data' = s.data
    /\ shape' = s.shape

\* __init__ up to its first download
Start ==
    /\ pc = "start"
    /\ LET res == Resolve(from_tile, to_tile, zoom)
       IN  IF res.err # NoError
           THEN /\ tile_list' = <<>>
                /\ Goto(Ctl("raised", res.err, <<>>, <<>>, 0, 0, Unset))
           ELSE /\ tile_list' = res.tiles
                /\ Goto(AtRow(res.tiles, ext, <<>>, 1, FALSE))
    /\ UNCHANGED <<from_tile, to_tile, zoom, ext, requested, cells, ret>>

\* cells with one more cell in row r
AddCell(cs, r, cell) ==
    IF r > Len(cs) THEN Append(cs, <<cell>>)
    ELSE [cs EXCEPT ![r] = Append(@, cell)]

\* one download and the constructor up to the next one
Fetch ==
    /\ pc = "fetch"
    /\ \E outcome \in Outcomes, ragged \in BOOLEAN :
        LET tile == tile_list[row][col]
            got == FetchCell(ext, tile, outcome)
        IN  /\ requested' = Append(requested, tile)
            /\ IF outcome = "silent"
               THEN /\ Goto(Ctl("blocked", NoError, full_tile, tr, row, col, Unset))
                    /\ cells' = cells
               ELSE IF got.err # NoError
               THEN /\ Goto(Ctl("raised", got.err, full_tile, tr, row, col, Unset))
                    /\ cells' = cells
               ELSE /\ Goto(AfterCell(tile_list, ext, full_tile,
                                      Append(tr, got.cell), row, col, ragged))
                    /\ cells' = AddCell(cells, row, got.cell)
    /\ UNCHANGED <<from_tile, to_tile, zoom, ext, tile_list, ret>>

Next == Start \/ Fetch

Spec == Init /\ [][Next]_vars

----------------------------------------------------------------------------
(* The gradient queries. A coordinate is the numerator of a fraction with   *)
(* denominator Den.                                                         *)

Coords == (-QMax)..QMax

\* int(x): truncation towards zero
PyInt(n) == IF n >= 0 THEN n \div Den ELSE -((-n) \div Den)

\* a[i] along an axis of length n, 0-based: a negative index counts from
\* the end, anything else outside 0..n-1 is an IndexError (0 here)
PyIndex(n, i) ==
    IF 0 <= i /\ i < n THEN i + 1
    ELSE IF -n <= i /\ i < 0 THEN i + n + 1
    ELSE 0

\* self.data[i, j]
Elem(d, i, j) ==
    LET ri == PyIndex(d.h, i)
        ci == PyIndex(d.w, j)
    IN  IF ri = 0 \/ ci = 0
        THEN [err |-> "IndexError", val |-> 0]
        ELSE [err |-> NoError, val |-> d.v[ri][ci]]

\* a - b, a * a and a + b in the array's dtype
Sub(dtype, a, b) == IF dtype = "uint8" THEN (a - b) % Uint8Mod ELSE a - b
Sq(dtype, a) == IF dtype = "uint8" THEN (a * a) % Uint8Mod ELSE a * a
Add(dtype, a, b) == IF dtype = "uint8" THEN (a + b) % Uint8Mod ELSE a + b

Raise(d, e) == [err |-> e, val |-> Unset, data |-> d, shape |-> ShapeOf(d)]
Return(d, v) == [err |-> NoError, val |-> v, data |-> d, shape |-> ShapeOf(d)]

\* a difference of two elements
Diff(d, p, q) ==
    IF p.err # NoError \/ q.err # NoError
    THEN [err |-> "IndexError", val |-> 0]
    ELSE [err |-> NoError, val |-> Sub(d.dtype, p.val, q.val)]

\* grad clearing the surface when it fails
gradMut(d, x, y) ==
    LET fx == PyInt(x)
        fy == PyInt(y)
        dx == x - fx * Den
        dy == y - fy * Den
        lower == (dx + dy) < Den
        grad_x == IF lower
                  THEN Diff(d, Elem(d, fy, fx + 1), Elem(d, fy, fx))
                  ELSE Diff(d, Elem(d, fy + 1, fx + 1), Elem(d, fy + 1, fx))
        grad_y == IF lower
                  THEN Diff(d, Elem(d, fy + 1, fx), Elem(d, fy, fx))
                  ELSE Diff(d, Elem(d, fy + 1, fx + 1), Elem(d, fy, fx + 1))
    IN  IF grad_x.err # NoError \/ grad_y.err # NoError
        THEN Raise(Zeros(d.h, d.w, d.ch), "IndexError")
        ELSE Return(d, <<grad_x.val, grad_y.val>>)
\* MapTile.grad(x, y) on self.data = d: what it raises or returns, and
\* self.data and self.shape after it
grad(d, x, y) ==
    LET fx == PyInt(x)
        fy == PyInt(y)
        dx == x - fx * Den
        dy == y - fy * Den
        lower == (dx + dy) < Den
        grad_x == IF lower
                  THEN Diff(d, Elem(d, fy, fx + 1), Elem(d, fy, fx))
                  ELSE Diff(d, Elem(d, fy + 1, fx + 1), Elem(d, fy + 1, fx))
        grad_y == IF lower
                  THEN Diff(d, Elem(d, fy + 1, fx), Elem(d, fy, fx))
                  ELSE Diff(d, Elem(d, fy + 1, fx + 1), Elem(d, fy, fx + 1))
    IN  IF grad_x.err # NoError \/ grad_y.err # NoError
        THEN Raise(d, "IndexError")
        ELSE Return(d, <<grad_x.val, grad_y.val>>)

\* MapTile.grad_norm(x, y): np.sqrt(v) is kept as [sqrt |-> v]
grad_norm(d, x, y) ==
    LET g == grad(d, x, y)
    IN  IF g.err # NoError THEN g
        ELSE [g EXCEPT !.val =
                [sqrt |-> Add(d.dtype, Sq(d.dtype, g.val[1]), Sq(d.dtype, g.val[2]))]]

\* MapTile.grad_angle(x, y): np.arctan2(gy, gx) is kept as [arctan2 |-> <<gy, gx>>]
grad_angle(d, x, y) ==
    LET g == grad(d, x, y)
    IN  IF g.err # NoError THEN g
        ELSE [g EXCEPT !.val = [arctan2 |-> <<g.val[2], g.val[1]>>]]

\* the constructor run to its end on the outcomes outc[row][col]
RECURSIVE Run(_, _, _, _, _)
Run(s, tl, e, outc, cs) ==
    IF s.pc # "fetch" THEN [ctl |-> s, cells |-> cs]
    ELSE LET got == FetchCell(e, tl[s.row][s.col], outc[s.row][s.col])
         IN  IF got.err # NoError
             THEN [ctl |-> Ctl("raised", got.err, s.full_tile, s.tr, s.row, s.col, Unset),
                   cells |-> cs]
             ELSE Run(AfterCell(tl, e, s.full_tile, Append(s.tr, got.cell),
                                s.row, s.col, FALSE),
                      tl, e, outc, AddCell(cs, s.row, got.cell))

RECURSIVE Flatten(_)
Flatten(rows) == IF rows = <<>> THEN <<>> ELSE rows[1] \o Flatten(Tail(rows))

\* a MapTile(from_tile, ext=ext) whose construction has returned
GradInit ==
    /\ from_tile \in {t \in Tiles : t[1] <= GradZ}
    /\ to_tile = NoTile
    /\ zoom = NoZoom
    /\ ext \in Exts
    /\ LET res == Resolve(from_tile, to_tile, zoom)
       IN  /\ res.err = NoError
           /\ tile_list = res.tiles
           /\ \E outc \in [1..Len(res.tiles) ->
                            [1..Len(res.tiles[1]) -> {"ok", "not_found"}]] :
                LET fin == Run(AtRow(res.tiles, ext, <<>>, 1, FALSE),
                               res.tiles, ext, outc, <<>>)
                IN  /\ fin.ctl.pc = "done"
                    /\ pc = "done"
                    /\ error = NoError
                    /\ full_tile = fin.ctl.full_tile
                    /\ tr = fin.ctl.tr
                    /\ row = fin.ctl.row
                    /\ col = fin.ctl.col
                    /\ requested = Flatten(res.tiles)
                    /\ cells = fin.cells
                    /\ data = fin.ctl.data
                    /\ shape = fin.ctl.shape
    /\ ret = Unset

Called(op, x, y, r) ==
    /\ ret' = [op |-> op, x |-> x, y |-> y, err |-> r.err, val |-> r.val]
    /\ data' = r.data
    /\ shape' = r.shape
    /\ UNCHANGED <<from_tile, to_tile, zoom, ext, pc, error, tile_list,
                   full_tile, tr, row, col, requested, cells>>

Grad ==
    /\ pc = "done"
    /\ \E x \in Coords, y \in Coords : Called("grad", x, y, grad(data, x, y))

GradNorm ==
    /\ pc = "done"
    /\ \E x \in Coords, y \in Coords :
        Called("grad_norm", x, y, grad_norm(data, x, y))

GradAngle ==
    /\ pc = "done"
    /\ \E x \in Coords, y \in Coords :
        Called("grad_angle", x, y, grad_angle(data, x, y))

GradNext == Grad \/ GradNorm \/ GradAngle

GradSpec == GradInit /\ [][GradNext]_vars

----------------------------------------------------------------------------
(* The claims about the construction (specification Spec)                   *)

Max(a, b) == IF a >= b THEN a ELSE b

\* the region as the caller states it: target zoom, corners, scale factors
CZoom == IF zoom = NoZoom THEN from_tile[1] ELSE zoom
CTo == IF to_tile = NoTile THEN from_tile ELSE to_tile
Upscaling == CZoom >= from_tile[1] /\ CZoom >= CTo[1] /\ CZoom <= 18
Cx1 == from_tile[2] * 2^(CZoom - from_tile[1])
Cy1 == from_tile[3] * 2^(CZoom - from_tile[1])
Cx2 == (CTo[2] + 1) * 2^(CZoom - CTo[1]) - 1
Cy2 == (CTo[3] + 1) * 2^(CZoom - CTo[1]) - 1
Supported == ext \in {"png", "jpg", "txt"}

\* every tile of tile_list is the tile of the rectangle at its row and
\* column, and every tile of the rectangle is in tile_list at its place
RectangleOnly ==
    \A r \in 1..Len(tile_list) : \A c \in 1..Len(tile_list[r]) :
        /\ tile_list[r][c] = <<CZoom, Cx1 + c - 1, Cy1 + r - 1>>
        /\ Cx1 + c - 1 <= Cx2
        /\ Cy1 + r - 1 <= Cy2
RectangleAll ==
    \A i \in Cx1..Cx2 : \A j \in Cy1..Cy2 :
        /\ j - Cy1 + 1 \in 1..Len(tile_list)
        /\ i - Cx1 + 1 \in 1..Len(tile_list[j - Cy1 + 1])

\* C1 as stated: for zoom >= both corner zooms and zoom <= 18 the tile
\* matrix is exactly the rectangle x1..x2 by y1..y2 at the target zoom, row
\* index = y ascending, column index = x ascending, and every row has
\* length x2-x1+1.
C1_AsStated ==
    (pc # "start" /\ Upscaling) =>
        /\ RectangleOnly
        /\ RectangleAll
        /\ \A r \in 1..Len(tile_list) : Len(tile_list[r]) = Cx2 - Cx1 + 1

\* C1 as amended: the same, with every row of length x2-x1+1 when that is
\* not negative and of length 0 when it is (to_tile left of from_tile).
C1_TileMatrix ==
    (pc # "start" /\ Upscaling) =>
        /\ RectangleOnly
        /\ RectangleAll
        /\ \A r \in 1..Len(tile_list) :
              Len(tile_list[r]) = Max(0, Cx2 - Cx1 + 1)

\* a single tile resolved one zoom level finer: a 2 x 2 block
C1_Witness ==
    /\ pc # "start"
    /\ Upscaling
    /\ CZoom > from_tile[1]
    /\ Len(tile_list) = 2
    /\ Len(tile_list[1]) = 2
    /\ tile_list[2][2] = <<CZoom, 2 * from_tile[2] + 1, 2 * from_tile[3] + 1>>

\* all cells of the assembly have the shape of its first cell
Uniform ==
    \A r \in 1..Len(cells) : \A c \in 1..Len(cells[r]) :
        ShapeOf(cells[r][c]) = ShapeOf(cells[1][1])

\* the cells a tile can yield: its content, well-formed or not, or zeros
CellsOf(tile) ==
    {Decoded(ext, tile, "ok"), Decoded(ext, tile, "odd"), Fallback(ext)}

\* C2: when the constructor returns from a matrix of R x C cells of one
\* height H and width W, data is R*H high and C*W wide, and the block at
\* rows (r-1)*H+1..r*H, columns (c-1)*W+1..c*W is the cell obtained for the
\* tile at row r, column c of the matrix.
C2_Layout ==
    (pc = "done" /\ Uniform) =>
        LET R == Len(tile_list)
            C == Len(tile_list[1])
            H == cells[1][1].h
            W == cells[1][1].w
        IN  /\ Len(cells) = R
            /\ data.h = R * H
            /\ data.w = C * W
            /\ Len(data.v) = R * H
            /\ \A y \in 1..(R * H) : Len(data.v[y]) = C * W
            /\ shape[1] = R * H
            /\ shape[2] = C * W
            /\ \A r \in 1..R :
                  /\ Len(cells[r]) = C
                  /\ \A c \in 1..C :
                        /\ cells[r][c] \in CellsOf(tile_list[r][c])
                        /\ \A i \in 1..H : \A j \in 1..W :
                              data.v[(r - 1) * H + i][(c - 1) * W + j]
                                  = cells[r][c].v[i][j]

\* a 2 x 2 matrix assembled from real cells and a zero-filled one
C2_Witness ==
    /\ pc = "done"
    /\ Uniform
    /\ Len(tile_list) = 2
    /\ Len(tile_list[1]) = 2
    /\ cells[1][2] = Fallback(ext)
    /\ cells[2][1] = Decoded(ext, tile_list[2][1], "ok")

FetchErrors ==
    {"PIL.UnidentifiedImageError", "requests.exceptions.ConnectionError",
     "urllib.error.URLError", "ValueError: could not convert string to float"}

\* C4: with ext png, jpg or txt, no failure of a download makes the
\* construction raise: a failed tile becomes a zero-filled cell of the
\* format's shape and the downloads go on.
C4_FailuresAbsorbed ==
    Supported => ~(pc = "raised" /\ error \in FetchErrors)

\* C6: with a target zoom above 18, or coarser than a corner's zoom, the
\* construction raises before it has a tile matrix and before any download.
C6_Rejected ==
    (pc # "start"
        /\ (CZoom > 18 \/ CZoom < from_tile[1] \/ CZoom < CTo[1])) =>
        /\ pc = "raised"
        /\ error \in {"AssertionError", "TypeError"}
        /\ tile_list = <<>>
        /\ requested = <<>>
        /\ data = Unset

\* a target zoom coarser than the zoom of to_tile, within the limit
C6_Witness ==
    /\ pc = "raised"
    /\ CZoom <= 18
    /\ CZoom >= from_tile[1]
    /\ CZoom < CTo[1]
    /\ error = "TypeError"

\* C7 as stated: with an unsupported ext the construction raises the format
\* error with no download started, for every region the resolver accepts.
C7_AsStated ==
    (pc # "start" /\ ~Supported /\ Upscaling) =>
        /\ pc = "raised"
        /\ error = FormatError
        /\ requested = <<>>

\* C7 as amended: the same for every accepted region of at least one tile;
\* for a region of no tile the construction also raises before any
\* download, with numpy's error for an empty concatenation.
C7_FormatError ==
    (pc # "start" /\ ~Supported /\ Upscaling) =>
        /\ pc = "raised"
        /\ requested = <<>>
        /\ error = IF Count(tile_list) >= 1 THEN FormatError ELSE NpError

\* an unsupported ext for a region of four tiles
C7_Witness ==
    /\ pc = "raised"
    /\ ~Supported
    /\ Upscaling
    /\ Count(tile_list) = 4
    /\ error = FormatError
    /\ requested = <<>>

\* the shape every cell of the format must have
Canonical ==
    IF ext \in {"png", "jpg"}
    THEN <<TileSize, TileSize, 3>> ELSE <<TileSize, TileSize>>

\* C8: every cell that is stacked has the canonical shape of the format: a
\* response of another shape is replaced by the zero-filled tile.
C8_CanonicalCells ==
    \A r \in 1..Len(cells) : \A c \in 1..Len(cells[r]) :
        ShapeOf(cells[r][c]) = Canonical

\* C10: a construction is never stuck: until it has returned or raised it
\* can take its next step, also when a download gets no response (the tile
\* matrix is finite, so it then finishes).
C10_NeverStuck == pc \in {"done", "raised"} \/ ENABLED Next

----------------------------------------------------------------------------
(* The claims about the queries (specification GradSpec)                    *)

\* floor(x) and floor(y) of the last query, and the fractional parts
Qfx == ret.x \div Den
Qfy == ret.y \div Den
Qdx == ret.x - Qfx * Den
Qdy == ret.y - Qfy * Den
\* the surface: S(y, x) is S[y][x], 0-based
S(y, x) == data.v[y + 1][x + 1]
ShapeX == data.w
ShapeY == data.h
InBounds ==
    /\ 0 <= Qfx /\ Qfx <= ShapeX - 2
    /\ 0 <= Qfy /\ Qfy <= ShapeY - 2

LowerLeft ==
    <<S(Qfy, Qfx + 1) - S(Qfy, Qfx), S(Qfy + 1, Qfx) - S(Qfy, Qfx)>>
UpperRight ==
    <<S(Qfy + 1, Qfx + 1) - S(Qfy + 1, Qfx),
      S(Qfy + 1, Qfx + 1) - S(Qfy, Qfx + 1)>>

\* C3: for a point whose cell has both +1 neighbours, grad returns the
\* differences of the lower-left triangle when dx+dy < 1 and those of the
\* upper-right triangle when dx+dy >= 1, dx+dy = 1 included.
C3_Gradient ==
    (ret # Unset /\ ret.op = "grad" /\ InBounds) =>
        /\ ret.err = NoError
        /\ ret.val = IF Qdx + Qdy < Den THEN LowerLeft ELSE UpperRight

\* The statement of C3 on the surfaces of elevation tiles (float64).
GradientOnFloats ==
    (ret # Unset /\ ret.op = "grad" /\ InBounds /\ data.dtype = "float64") =>
        /\ ret.err = NoError
        /\ ret.val = IF Qdx + Qdy < Den THEN LowerLeft ELSE UpperRight

\* a point on the diagonal of an elevation surface that is not flat
GradientOnFloats_Witness ==
    /\ ret # Unset
    /\ ret.op = "grad"
    /\ InBounds
    /\ data.dtype = "float64"
    /\ Qdx + Qdy = Den
    /\ ret.val = UpperRight
    /\ UpperRight # LowerLeft

\* C5: a query whose floor(x) or floor(y) is below 0 or above shape-2
\* fails with a bounds error and returns nothing.
C5_BoundsError ==
    (ret # Unset /\ ~InBounds) => ret.err = "IndexError"

\* C9: no query, returning or failing, changes data or shape.
C9_Frame == [][data' = data /\ shape' = shape]_vars

\* a query has failed and the surface is as the constructor left it
C9_Witness ==
    /\ ret # Unset
    /\ ret.err = "IndexError"
    /\ data = VStack(<<HStack(cells[1], FALSE).arr>>, FALSE).arr
    /\ shape = ShapeOf(data)

====
